---- MODULE Spec2Model ----
(***************************************************************************)
(* The DataFetch mixin of react-data-fetch as a state machine.             *)
(*                                                                         *)
(* The component (this._xhrRequests, this._pollInterval,                   *)
(* this._ignoreXhrRequestCallbacks, this.state, this.props) is driven by   *)
(* three collaborators: React (lifecycle hooks, props), the transport      *)
(* ($.ajax: one success or error callback per request, then complete) and  *)
(* the timer service (setInterval / clearInterval).                        *)
(*                                                                         *)
(* Every handler is modelled as a function on a record c holding the       *)
(* component's fields and the collaborators' state; an action applies the  *)
(* handler to the current state and commits the result.  c.calls is the    *)
(* list of calls the handler made on its collaborators (setState, $.ajax,  *)
(* abort, setInterval, clearInterval, options.onError), in call order.     *)
(*                                                                         *)
(* The mixin modelled is its current revision, the one README.md lists     *)
(* (lines 66-264): stopFetching, stopPolling, resumePolling, _startPolling,*)
(* _clearPolling and options.onError exist there only.  The file           *)
(* src/data-fetch-mixin.js is an earlier revision of the same mixin.       *)
(***************************************************************************)
EXTENDS Integers, Sequences, FiniteSets

VARIABLES
  phase,                       \* "created" | "mounted" | "unmounted" (React)
  hasGetDataUrl,               \* typeof(this.getDataUrl) === 'function'
  props,                       \* this.props
  state,                       \* this.state
  _xhrRequests,                \* this._xhrRequests: request handles, in push order
  _pollInterval,               \* this._pollInterval: a timer handle, 0 for null/undefined
  _ignoreXhrRequestCallbacks,  \* this._ignoreXhrRequestCallbacks
  requests,                    \* transport: the unanswered requests, by handle
  timers,                      \* timer service: the live intervals
  ordered,                     \* whether the order of issue is kept (history)
  issued,                      \* history, kept when ordered: the unanswered
                               \* requests in the order they were issued, each
                               \* with whether a request issued after it has
                               \* been answered already
  calls,                       \* the collaborator calls of the last handler, in order
  op                           \* the last handler that ran, with its arguments

vars == <<phase, hasGetDataUrl, props, state, _xhrRequests, _pollInterval,
          _ignoreXhrRequestCallbacks, requests, ordered, issued, timers,
          calls, op>>

----------------------------------------------------------------------------
(* Bounds *)

\* At most this many requests are unanswered at any time.
MaxInFlight == 2

----------------------------------------------------------------------------
(* Values *)

\* An absent URL (undefined, null or ''): falsy in `if (dataUrl)`.
NoUrl == ""
\* state.data before any response: the key is absent.
NoData == "undefined"
\* null, for state.dataError and for an optional value in general.
Null == <<>>

PlainUrls == {NoUrl, "a.json", "b.json"}
PollIntervals == {0, 1000, 2000}
\* Another prop of the host component, read by its getDataUrl method.
Keys == {0, 1, 2}

Props == [dataUrl : PlainUrls, pollInterval : PollIntervals, key : Keys]

\* The props a host passes: one without a getDataUrl method has no key prop
\* (0 throughout); one with the method passes some dataUrl all the same.
HostProps(resolver) ==
  IF resolver
  THEN {p \in Props : p.dataUrl # NoUrl /\ p.key # 0 /\ p.pollInterval < 2000}
  ELSE {p \in Props : p.key = 0}

\* The host's getDataUrl method: composes the URL from other props; key 0
\* yields no URL (the method returns undefined).
getDataUrl(p) ==
  CASE p.key = 0 -> NoUrl
    [] p.key = 1 -> "users/1.json"
    [] OTHER     -> "users/2.json"

Payloads == {"d1", "d2"}

\* The errorThrown argument of jQuery's error callback is a string or an
\* Error object; err.toString() is its message.
toString(err) ==
  IF err.type = "Error" THEN "Error: " \o err.value ELSE err.value

\* The arguments (xhr, status, err) of an error callback: of a request that
\* failed, and of one that was aborted.
ErrorArgs == {[status |-> 200, statusText |-> "parsererror",
               err |-> [type |-> "Error", value |-> "Unexpected token"]]}
AbortArgs == [status |-> 0, statusText |-> "abort",
              err |-> [type |-> "string", value |-> "abort"]]

----------------------------------------------------------------------------
(* The mixin *)

getInitialState == [isFetchingData |-> FALSE, data |-> NoData, dataError |-> Null]

Call(c, fn, arg) == [c EXCEPT !.calls = Append(@, [fn |-> fn, arg |-> arg])]

\* React's setState: merges the partial update into this.state.
setState(c, partial) ==
  Call([c EXCEPT !.state = [k \in DOMAIN c.state |->
                              IF k \in DOMAIN partial THEN partial[k]
                              ELSE c.state[k]]],
       "setState", partial)

\* _getDataUrl that ignores the host's getDataUrl method.
_getDataUrl_plain(c, p) == p.dataUrl

_getDataUrl(c, p) == IF c.hasGetDataUrl THEN getDataUrl(p) ELSE p.dataUrl

_shouldWePoll(p) == p.pollInterval > 0

\* receiveDataFromServer that also clears the error.
receiveDataFromServer_clearsError(c, data) ==
  setState(c, [isFetchingData |-> FALSE, data |-> data, dataError |-> Null])

\* receiveDataFromServer that stores the data and leaves isFetchingData.
receiveDataFromServer_dataOnly(c, data) == setState(c, [data |-> data])

\* receiveDataFromServer that drops a response when no fetch is awaited.
receiveDataFromServer_ifFetching(c, data) ==
  IF c.state.isFetchingData
  THEN setState(c, [isFetchingData |-> FALSE, data |-> data])
  ELSE c

receiveDataFromServer(c, data) ==
  setState(c, [isFetchingData |-> FALSE, data |-> data])

\* lodash _.without(array, value)
without(s, v) == SelectSeq(s, LAMBDA x : x # v)

\* onComplete that leaves the handle in this._xhrRequests.
onComplete_keepsHandle(c, r) == c

\* The onComplete closure of request r.
onComplete(c, r) == [c EXCEPT !._xhrRequests = without(@, r)]

\* dataErrorOf with the URL of the current props, not of the request.
dataErrorOf_currentUrl(c, r, x) ==
  [url |-> c.props.dataUrl, statusCode |-> x.status,
   statusText |-> x.statusText, message |-> toString(x.err)]

\* The dataError the onError closure of request r stores: url is the url
\* parameter of the _fetchDataFromServer call that issued r.
dataErrorOf(c, r, x) ==
  [url |-> c.requests[r].url, statusCode |-> x.status,
   statusText |-> x.statusText, message |-> toString(x.err)]

\* onError without the _ignoreXhrRequestCallbacks test.
onError_unguarded(c, r, x) ==
  Call(setState(c, [isFetchingData |-> FALSE,
                    dataError |-> <<dataErrorOf(c, r, x)>>]),
       "options.onError", x)

\* onError that calls the hook before it records the error.
onError_hookFirst(c, r, x) ==
  IF c._ignoreXhrRequestCallbacks THEN c
  ELSE setState(Call(c, "options.onError", x),
                [isFetchingData |-> FALSE,
                 dataError |-> <<dataErrorOf(c, r, x)>>])

\* The onError closure of request r, called with x = (xhr, status, err).
onError(c, r, x) ==
  IF c._ignoreXhrRequestCallbacks THEN c
  ELSE Call(setState(c, [isFetchingData |-> FALSE,
                         dataError |-> <<dataErrorOf(c, r, x)>>]),
            "options.onError", x)

\* The unanswered requests once r is answered: r is gone, and those issued
\* before it have been overtaken by r's answer.
overtake(queue, r) ==
  LET at == CHOOSE i \in DOMAIN queue : queue[i].req = r
  IN [i \in 1..(Len(queue) - 1) |->
        IF i < at THEN [queue[i] EXCEPT !.overtaken = TRUE] ELSE queue[i + 1]]

\* The transport is done with request r.
forget(c, r) ==
  [c EXCEPT !.requests = [h \in DOMAIN @ \ {r} |-> @[h]],
            !.issued = IF c.ordered THEN overtake(@, r) ELSE @]

\* The transport answers request r: success or error, then complete.
answerSuccess(c, r, data) ==
  forget(onComplete(receiveDataFromServer(c, data), r), r)

answerError(c, r, x) ==
  forget(onComplete(onError(c, r, x), r), r)

\* request.abort(): the transport is asked to abort r.  For the requests of
\* sync it answers inside abort() (jQuery: error 'abort', then complete);
\* for the others the answer, if any, comes later.
abort(c, r, sync) ==
  LET c1 == Call([c EXCEPT !.requests[r].aborts = @ + 1],
                 "abort", [request |-> r])
  IN IF r \in sync
     THEN answerError(c1, r, AbortArgs)
     ELSE c1

RECURSIVE _clearDataRequests(_, _)
_clearDataRequests(c, sync) ==
  IF c._xhrRequests = <<>> THEN c
  ELSE LET n == Len(c._xhrRequests)
           r == c._xhrRequests[n]
           popped == [c EXCEPT !._xhrRequests = SubSeq(@, 1, n - 1)]
       IN _clearDataRequests(abort(popped, r, sync), sync)

\* $.ajax(settings) returns a handle (the jqXHR) no unanswered request has.
\* The mixin keeps a handle only while its request is unanswered
\* (TrackedAreUnanswered), so the handle of an answered request may be used
\* again.
newRequest(c) ==
  CHOOSE h \in 1..(Cardinality(DOMAIN c.requests) + 1) : h \notin DOMAIN c.requests

ajax(c, request, settings) ==
  Call([c EXCEPT !.requests = [h \in DOMAIN @ \cup {request} |->
                                 IF h = request
                                 THEN [url |-> settings.url, aborts |-> 0]
                                 ELSE @[h]],
                 !.issued = IF c.ordered
                            THEN Append(@, [req |-> request, overtaken |-> FALSE])
                            ELSE @],
       "ajax", settings)

\* _fetchDataFromServer without the setState that announces the fetch.
_fetchDataFromServer_silent(c, url) ==
  LET request == newRequest(c)
      c2 == ajax(c, request,
                 [url |-> url, type |-> "GET", dataType |-> "json",
                  request |-> request])
  IN [c2 EXCEPT !._xhrRequests = Append(@, request)]

\* _fetchDataFromServer that announces the fetch and keeps the old error.
_fetchDataFromServer_keepsError(c, url) ==
  LET c1 == setState(c, [isFetchingData |-> TRUE])
      request == newRequest(c1)
      c2 == ajax(c1, request,
                 [url |-> url, type |-> "GET", dataType |-> "json",
                  request |-> request])
  IN [c2 EXCEPT !._xhrRequests = Append(@, request)]

_fetchDataFromServer(c, url) ==
  LET c1 == setState(c, [isFetchingData |-> TRUE, dataError |-> Null])
      request == newRequest(c1)
      c2 == ajax(c1, request,
                 [url |-> url, type |-> "GET", dataType |-> "json",
                  request |-> request])
  IN [c2 EXCEPT !._xhrRequests = Append(@, request)]

\* _resetData that fetches before it clears: the new request is aborted too.
_resetData_fetchFirst(c, p, sync) ==
  LET dataUrl == _getDataUrl(c, p)
      c1 == IF dataUrl # NoUrl THEN _fetchDataFromServer(c, dataUrl) ELSE c
  IN _clearDataRequests(c1, sync)

\* _resetData that fetches without cancelling what is in flight.
_resetData_noClear(c, p, sync) ==
  LET dataUrl == _getDataUrl(c, p)
  IN IF dataUrl # NoUrl THEN _fetchDataFromServer(c, dataUrl) ELSE c

_resetData(c, p, sync) ==
  LET dataUrl == _getDataUrl(c, p)
      c1 == _clearDataRequests(c, sync)
  IN IF dataUrl # NoUrl THEN _fetchDataFromServer(c1, dataUrl) ELSE c1

\* setInterval(callback, delay) returns a handle no live interval has.  The
\* handles are opaque to the mixin, which keeps one only while its interval
\* is live (HandleIsLive), so a handle may be used again once cleared.
newHandle(c) ==
  CHOOSE h \in 1..(Cardinality(c.timers) + 1) : \A t \in c.timers : t.id # h

_startPolling(c, p) ==
  LET url == _getDataUrl(c, p)
      handle == newHandle(c)
  IN Call([c EXCEPT !.timers = @ \cup {[id |-> handle, url |-> url,
                                         interval |-> p.pollInterval]},
                    !._pollInterval = handle],
          "setInterval", p.pollInterval)

\* A poll callback that resets (aborting what is in flight) before it fetches.
pollCallback_reset(c, url) ==
  _fetchDataFromServer(_clearDataRequests(c, {}), url)

\* The callback _startPolling hands to setInterval, for the url it resolved.
pollCallback(c, url) == _fetchDataFromServer(c, url)

_clearPolling(c) ==
  Call([c EXCEPT !.timers = {t \in @ : t.id # c._pollInterval},
                 !._pollInterval = 0],
       "clearInterval", c._pollInterval)

componentWillMount(c) ==
  LET c1 == _resetData([c EXCEPT !._xhrRequests = <<>>], c.props, {})
  IN IF _shouldWePoll(c.props) THEN _startPolling(c1, c.props) ELSE c1

\* componentWillReceiveProps that resets on every call, changed or not.
componentWillReceiveProps_always(c, nextProps, sync) ==
  LET c1 == _resetData(_clearPolling(c), nextProps, sync)
  IN IF _shouldWePoll(nextProps) THEN _startPolling(c1, nextProps) ELSE c1

\* componentWillReceiveProps that clears the interval only to replace it.
componentWillReceiveProps_keepsTimer(c, nextProps, sync) ==
  LET dataUrlChanged == c.props.dataUrl # nextProps.dataUrl
      pollIntervalChanged == c.props.pollInterval # nextProps.pollInterval
  IN IF dataUrlChanged \/ pollIntervalChanged
     THEN LET c2 == IF dataUrlChanged THEN _resetData(c, nextProps, sync) ELSE c
          IN IF _shouldWePoll(nextProps)
             THEN _startPolling(_clearPolling(c2), nextProps)
             ELSE c2
     ELSE c

\* componentWillReceiveProps that fetches again on any change.
componentWillReceiveProps_resetsOnAnyChange(c, nextProps, sync) ==
  LET dataUrlChanged == c.props.dataUrl # nextProps.dataUrl
      pollIntervalChanged == c.props.pollInterval # nextProps.pollInterval
  IN IF dataUrlChanged \/ pollIntervalChanged
     THEN LET c2 == _resetData(_clearPolling(c), nextProps, sync)
          IN IF _shouldWePoll(nextProps) THEN _startPolling(c2, nextProps) ELSE c2
     ELSE c

componentWillReceiveProps(c, nextProps, sync) ==
  LET dataUrlChanged == c.props.dataUrl # nextProps.dataUrl
      pollIntervalChanged == c.props.pollInterval # nextProps.pollInterval
  IN IF dataUrlChanged \/ pollIntervalChanged
     THEN LET c1 == _clearPolling(c)
              c2 == IF dataUrlChanged THEN _resetData(c1, nextProps, sync) ELSE c1
          IN IF _shouldWePoll(nextProps) THEN _startPolling(c2, nextProps) ELSE c2
     ELSE c

\* componentWillUnmount that leaves the interval running.
componentWillUnmount_keepsPolling(c, sync) ==
  _clearDataRequests([c EXCEPT !._ignoreXhrRequestCallbacks = TRUE], sync)

componentWillUnmount(c, sync) ==
  _clearPolling(_clearDataRequests(
    [c EXCEPT !._ignoreXhrRequestCallbacks = TRUE], sync))

\* refreshData that cancels what is in flight and fetches nothing.
refreshData_onlyClears(c, sync) == _clearDataRequests(c, sync)

refreshData(c, sync) == _resetData(c, c.props, sync)

\* stopFetching through one "clear" that stops the polling too.
stopFetching_andPolling(c, sync) == _clearPolling(_clearDataRequests(c, sync))

stopFetching(c, sync) == _clearDataRequests(c, sync)

\* stopPolling through one "clear" that cancels the requests too.
stopPolling_andFetching(c) == _clearPolling(_clearDataRequests(c, {}))

\* stopPolling as a toggle: with no interval held it starts one.
stopPolling_toggle(c) ==
  IF c._pollInterval = 0 THEN _startPolling(c, c.props) ELSE _clearPolling(c)

stopPolling(c) == _clearPolling(c)

\* resumePolling that starts an interval without clearing the current one.
resumePolling_noClear(c) == _startPolling(c, c.props)

resumePolling(c) == _startPolling(_clearPolling(c), c.props)

----------------------------------------------------------------------------
(* The state machine *)

\* The current state as the record the handlers work on; calls starts empty.
This ==
  [props |-> props, hasGetDataUrl |-> hasGetDataUrl, state |-> state,
   _xhrRequests |-> _xhrRequests, _pollInterval |-> _pollInterval,
   _ignoreXhrRequestCallbacks |-> _ignoreXhrRequestCallbacks,
   requests |-> requests, ordered |-> ordered, issued |-> issued,
   timers |-> timers,
   calls |-> <<>>]

WithinBounds(c) == Cardinality(DOMAIN c.requests) <= MaxInFlight

Commit(c) ==
  /\ WithinBounds(c)
  /\ props' = c.props
  /\ state' = c.state
  /\ _xhrRequests' = c._xhrRequests
  /\ _pollInterval' = c._pollInterval
  /\ _ignoreXhrRequestCallbacks' = c._ignoreXhrRequestCallbacks
  /\ requests' = c.requests
  /\ issued' = c.issued
  /\ timers' = c.timers
  /\ calls' = c.calls
  /\ UNCHANGED <<hasGetDataUrl, ordered>>

\* The last handler: its name, the props it was passed (this.props when it
\* takes none), the request or interval it belongs to, and its other
\* arguments: the URL bound into an interval callback, the data of a success
\* callback, the (xhr, status, err) of an error callback, and for either
\* callback whether its request had been overtaken (stale).
NoArgs == [url |-> NoUrl, data |-> NoData, stale |-> FALSE,
           error |-> [status |-> 0, statusText |-> "",
                      err |-> [type |-> "string", value |-> ""]]]
Op(name, p, r, a) == [name |-> name, props |-> p, req |-> r, arg |-> a]

\* The requests the transport has not answered yet, and those the mixin
\* tracks as in flight.
Pending == DOMAIN requests
Overtaken == {issued[i].req : i \in {j \in DOMAIN issued : issued[j].overtaken}}
Tracked == {_xhrRequests[i] : i \in DOMAIN _xhrRequests}

\* The transport's choice when a handler aborts requests: the requests it
\* answers inside abort().  Either it calls back from abort() (as jQuery
\* does: error 'abort', then complete) or it does not; only tracked requests
\* are ever aborted.
SyncChoices == {{}, Tracked \cap Pending}

InitRest ==
  /\ props \in HostProps(hasGetDataUrl)
  /\ phase = "created"
  /\ state = getInitialState
  /\ _xhrRequests = <<>>
  /\ _pollInterval = 0
  /\ _ignoreXhrRequestCallbacks = FALSE
  /\ requests = <<>>
  /\ issued = <<>>
  /\ timers = {}
  /\ calls = <<>>
  /\ op = Op("constructor", props, 0, NoArgs)

\* A host component without a getDataUrl method.
Init ==
  /\ hasGetDataUrl = FALSE
  /\ ordered = FALSE
  /\ InitRest

\* A host component that implements getDataUrl.
InitResolver ==
  /\ hasGetDataUrl = TRUE
  /\ ordered = FALSE
  /\ InitRest

\* A host component without a getDataUrl method, the order of issue kept.
InitOrdered ==
  /\ hasGetDataUrl = FALSE
  /\ ordered = TRUE
  /\ InitRest

Mount ==
  /\ phase = "created"
  /\ phase' = "mounted"
  /\ op' = Op("componentWillMount", props, 0, NoArgs)
  /\ Commit(componentWillMount(This))

\* React calls componentWillReceiveProps(nextProps) and then replaces
\* this.props by nextProps.
ReceiveProps ==
  /\ phase = "mounted"
  /\ \E nextProps \in HostProps(hasGetDataUrl) :
     \E sync \in IF nextProps.dataUrl = props.dataUrl THEN {{}} ELSE SyncChoices :
       /\ op' = Op("componentWillReceiveProps", nextProps, 0, NoArgs)
       /\ Commit([componentWillReceiveProps(This, nextProps, sync)
                    EXCEPT !.props = nextProps])
  /\ UNCHANGED phase

Unmount ==
  /\ phase = "mounted"
  /\ phase' = "unmounted"
  /\ \E sync \in SyncChoices :
       Commit(componentWillUnmount(This, sync))
  /\ op' = Op("componentWillUnmount", props, 0, NoArgs)

RefreshData ==
  /\ phase = "mounted"
  /\ \E sync \in SyncChoices :
       Commit(refreshData(This, sync))
  /\ op' = Op("refreshData", props, 0, NoArgs)
  /\ UNCHANGED phase

StopFetching ==
  /\ phase = "mounted"
  /\ \E sync \in SyncChoices :
       Commit(stopFetching(This, sync))
  /\ op' = Op("stopFetching", props, 0, NoArgs)
  /\ UNCHANGED phase

StopPolling ==
  /\ phase = "mounted"
  /\ Commit(stopPolling(This))
  /\ op' = Op("stopPolling", props, 0, NoArgs)
  /\ UNCHANGED phase

ResumePolling ==
  /\ phase = "mounted"
  /\ Commit(resumePolling(This))
  /\ op' = Op("resumePolling", props, 0, NoArgs)
  /\ UNCHANGED phase

\* A live interval fires: the callback _startPolling bound to it runs.
TimerFires ==
  /\ \E t \in timers :
       /\ Commit(pollCallback(This, t.url))
       /\ op' = Op("timer", props, t.id, [NoArgs EXCEPT !.url = t.url])
  /\ UNCHANGED phase

\* The transport answers a request with success(data), then complete.  abort()
\* only asks the transport to stop: the response of an aborted request may
\* have won the race, so an aborted request can still succeed.
Success ==
  /\ \E r \in Pending, data \in Payloads :
       /\ Commit(answerSuccess(This, r, data))
       /\ op' = Op("success", props, r,
                  [NoArgs EXCEPT !.data = data, !.stale = r \in Overtaken])
  /\ UNCHANGED phase

\* The transport answers a request with error(xhr, status, err), then
\* complete; the error of an aborted request is 'abort'.
Error ==
  /\ \E r \in Pending :
     \E x \in IF requests[r].aborts > 0 THEN {AbortArgs} ELSE ErrorArgs :
       /\ Commit(answerError(This, r, x))
       /\ op' = Op("error", props, r,
                  [NoArgs EXCEPT !.error = x, !.stale = r \in Overtaken])
  /\ UNCHANGED phase

Next ==
  \/ Mount
  \/ ReceiveProps
  \/ Unmount
  \/ RefreshData
  \/ StopFetching
  \/ StopPolling
  \/ ResumePolling
  \/ TimerFires
  \/ Success
  \/ Error

Spec == Init /\ [][Next]_vars

SpecResolver == InitResolver /\ [][Next]_vars

SpecOrdered == InitOrdered /\ [][Next]_vars

\* The mixin with polling off and never unmounted, driven by mount, updates
\* and refreshes only, on a transport that answers every request it is
\* handed: the answer to an unanswered request is not put off forever.
InitQuiet ==
  /\ Init
  /\ props.pollInterval = 0

Deliver(r) ==
  /\ Success \/ Error
  /\ op'.req = r

\* An update that leaves polling off.
ReceivePropsQuiet ==
  /\ ReceiveProps
  /\ props'.pollInterval = 0

NextQuiet ==
  \/ Mount
  \/ ReceivePropsQuiet
  \/ RefreshData
  \/ Success
  \/ Error

SpecQuiet ==
  /\ InitQuiet
  /\ [][NextQuiet]_vars
  /\ \A r \in 1..MaxInFlight : WF_vars(Deliver(r))

----------------------------------------------------------------------------
(* Sanity of the model *)

TypeOK ==
  /\ phase \in {"created", "mounted", "unmounted"}
  /\ hasGetDataUrl \in BOOLEAN
  /\ props \in Props
  /\ state.isFetchingData \in BOOLEAN
  /\ state.data \in Payloads \cup {NoData}
  /\ Len(state.dataError) <= 1
  /\ _pollInterval \in 0..MaxInFlight + 1
  /\ _ignoreXhrRequestCallbacks \in BOOLEAN
  /\ \A r \in DOMAIN requests : requests[r].aborts \in 0..1
  /\ \A t \in timers : t.interval \in PollIntervals

\* The handle the mixin keeps is the handle of a live interval.
HandleIsLive == _pollInterval # 0 => \E t \in timers : t.id = _pollInterval

\* The issue order lists the unanswered requests, each once, and the
\* tracked ones among them appear in the order of this._xhrRequests.
IssuedArePending ==
  ordered =>
  /\ {issued[i].req : i \in DOMAIN issued} = Pending
  /\ Len(issued) = Cardinality(Pending)
  /\ SelectSeq([i \in DOMAIN issued |-> issued[i].req],
               LAMBDA h : h \in Tracked) = _xhrRequests

\* The mixin tracks unanswered requests only, each once.
TrackedAreUnanswered ==
  /\ Tracked \subseteq Pending
  /\ Cardinality(Tracked) = Len(_xhrRequests)

----------------------------------------------------------------------------
(* Claims *)

\* The calls of one kind among the calls cs of a handler, in call order.
CallsOf(cs, fn) == SelectSeq(cs, LAMBDA e : e.fn = fn)

\* The positions of the calls of one kind in cs.
At(cs, fn) == {i \in DOMAIN cs : cs[i].fn = fn}

\* The effective URL of a configuration, by the resolution rule: the
\* resolver's value when the host supplies one, the plain field otherwise.
EffectiveUrl(p) == IF hasGetDataUrl THEN getDataUrl(p) ELSE p.dataUrl

\* C1: after teardown, the error callback of a request started before it
\* emits no state update and does not call the external onError hook,
\* whether the transport calls it from abort() during teardown or later.
C1_LateErrorSuppressed ==
  (phase = "unmounted" /\ op.name \in {"error", "componentWillUnmount"})
    => (At(calls, "setState") = {} /\ At(calls, "options.onError") = {})

\* An error callback was delivered after teardown.
C1_Witness == phase = "unmounted" /\ op.name = "error"

\* C2: once teardown has occurred no state update is emitted again, whichever
\* callback the transport still delivers: a late success is a no-op too.
C2_NoUpdateAfterTeardown ==
  (phase = "unmounted" /\ op.name \in {"success", "error"})
    => At(calls, "setState") = {}

\* C3: mounting with a present effective URL X issues exactly one GET, to X,
\* and emits isFetchingData = true in the same step, before the GET is
\* handed to the transport (so before any of its callbacks can run).
C3_MountFetchesOnce ==
  (op.name = "componentWillMount" /\ EffectiveUrl(props) # NoUrl)
    => /\ Len(CallsOf(calls, "ajax")) = 1
       /\ CallsOf(calls, "ajax")[1].arg.url = EffectiveUrl(props)
       /\ CallsOf(calls, "ajax")[1].arg.type = "GET"
       /\ \E i \in At(calls, "setState") :
            /\ calls[i].arg.isFetchingData = TRUE
            /\ \A j \in At(calls, "ajax") : i < j
       /\ state.isFetchingData = TRUE

\* The component was mounted with a URL.
C3_Witness ==
  op.name = "componentWillMount" /\ props.dataUrl = "a.json" /\ Len(_xhrRequests) = 1

\* C4: an update whose dataUrl differs from the current one, with the new
\* effective URL present, calls abort on every request tracked at that
\* moment, before the new request is issued, then issues exactly one GET, to
\* the new URL; the new request is the only one tracked afterwards and has
\* not been aborted.
C4_UrlChangeAbortsThenFetches ==
  [][(/\ op'.name = "componentWillReceiveProps"
      /\ op'.props.dataUrl # props.dataUrl
      /\ EffectiveUrl(op'.props) # NoUrl)
     => /\ \A r \in Tracked :
             \E i \in At(calls', "abort") : calls'[i].arg.request = r
        /\ Len(CallsOf(calls', "abort")) = Len(_xhrRequests)
        /\ Len(CallsOf(calls', "ajax")) = 1
        /\ \A i \in At(calls', "abort"), j \in At(calls', "ajax") : i < j
        /\ CallsOf(calls', "ajax")[1].arg.url = EffectiveUrl(op'.props)
        /\ _xhrRequests' = <<CallsOf(calls', "ajax")[1].arg.request>>
        /\ requests'[_xhrRequests'[1]] =
             [url |-> EffectiveUrl(op'.props), aborts |-> 0]]_vars

\* An update changed the URL while a request was in flight.
C4_Witness ==
  /\ op.name = "componentWillReceiveProps"
  /\ At(calls, "abort") # {}
  /\ At(calls, "ajax") # {}

\* C5: an update with the same dataUrl and the same pollInterval changes
\* nothing: no GET, no abort, no timer call, no state update.
C5_SameConfigIsNoOp ==
  [][(/\ op'.name = "componentWillReceiveProps"
      /\ op'.props.dataUrl = props.dataUrl
      /\ op'.props.pollInterval = props.pollInterval)
     => /\ calls' = <<>>
        /\ UNCHANGED <<state, _xhrRequests, _pollInterval, requests, timers,
                       _ignoreXhrRequestCallbacks>>]_vars

\* An unchanged configuration arrived while a request and a timer were live.
C5_Witness ==
  /\ op.name = "componentWillReceiveProps"
  /\ calls = <<>>
  /\ _xhrRequests # <<>>
  /\ timers # {}

\* The message of an error value, as JavaScript stringifies it.
Stringified(err) ==
  IF err.type = "Error" THEN "Error: " \o err.value ELSE err.value

\* C6: an error callback before teardown emits exactly one update, with
\* isFetchingData = false and dataError = {url, statusCode, statusText,
\* message}: url the URL the failed request was issued to, statusCode and
\* statusText the transport's, message the stringified error; data is left
\* as it was.
C6_ErrorUpdate ==
  [][(op'.name = "error" /\ ~_ignoreXhrRequestCallbacks)
     => /\ CallsOf(calls', "setState") =
             <<[fn |-> "setState",
                arg |-> [isFetchingData |-> FALSE,
                         dataError |-> <<[url |-> requests[op'.req].url,
                                          statusCode |-> op'.arg.error.status,
                                          statusText |-> op'.arg.error.statusText,
                                          message |-> Stringified(op'.arg.error.err)]>>]]>>
        /\ state'.isFetchingData = FALSE
        /\ state'.dataError = CallsOf(calls', "setState")[1].arg.dataError
        /\ state'.data = state.data]_vars

\* The error of a request to one URL arrived after the configuration had
\* moved on to another.
C6_Witness ==
  /\ op.name = "error"
  /\ ~_ignoreXhrRequestCallbacks
  /\ state.dataError # Null
  /\ state.dataError[1].url = "a.json"
  /\ props.dataUrl = "b.json"

\* C7: the success callback with payload d emits exactly one update, with
\* isFetchingData = false and data = d, and nothing else: dataError is left
\* as it was, no GET is issued and nothing is aborted.
C7_SuccessUpdate ==
  [][op'.name = "success"
     => /\ calls' = <<[fn |-> "setState",
                       arg |-> [isFetchingData |-> FALSE, data |-> op'.arg.data]]>>
        /\ state'.isFetchingData = FALSE
        /\ state'.data = op'.arg.data
        /\ state'.dataError = state.dataError]_vars

\* A response arrived while an error was on record.
C7_Witness ==
  /\ op.name = "success"
  /\ phase = "mounted"
  /\ state.dataError # Null
  /\ state.data = "d2"

\* C8: with a getDataUrl method, every GET of a mount, an update or a refresh
\* goes to the method's value for the props that operation was passed; an
\* interval is started for the method's value for the props its starter was
\* passed, and every GET of its ticks goes there: the plain dataUrl field is
\* never a request URL.
C8_ResolverDecidesUrl ==
  [][/\ op'.name \in {"componentWillMount", "componentWillReceiveProps",
                       "refreshData"}
        => \A i \in At(calls', "ajax") :
             calls'[i].arg.url = getDataUrl(op'.props)
     /\ At(calls', "setInterval") # {}
        => \E t \in timers' : t.id = _pollInterval' /\ t.url = getDataUrl(op'.props)
     /\ op'.name = "timer"
        => /\ \E t \in timers : t.id = op'.req /\ t.url = op'.arg.url
           /\ \A i \in At(calls', "ajax") : calls'[i].arg.url = op'.arg.url
     /\ \A i \in At(calls', "ajax") : calls'[i].arg.url \notin PlainUrls]_vars

\* A tick fetched the resolved URL of a host with a getDataUrl method.
C8_Witness ==
  /\ hasGetDataUrl
  /\ op.name = "timer"
  /\ At(calls, "ajax") # {}
  /\ \E r \in Tracked : requests[r].url = "users/2.json"

\* C9: mounting with pollInterval N > 0 starts one interval of N ms, and
\* every firing of an interval issues exactly one GET and aborts nothing: the
\* requests in flight stay tracked, the new one is added, and the interval
\* stays live for the next firing.
C9_TickFetchesOnce ==
  [][/\ (op'.name = "componentWillMount" /\ props.pollInterval > 0)
        => /\ Cardinality(timers') = 1
           /\ \A t \in timers' : /\ t.interval = props.pollInterval
                                  /\ t.url = EffectiveUrl(props)
     /\ op'.name = "timer"
        => /\ Len(CallsOf(calls', "ajax")) = 1
           /\ At(calls', "abort") = {}
           /\ CallsOf(calls', "ajax")[1].arg.url = op'.arg.url
           /\ Len(_xhrRequests') = Len(_xhrRequests) + 1
           /\ SubSeq(_xhrRequests', 1, Len(_xhrRequests)) = _xhrRequests
           /\ \A r \in DOMAIN requests : requests'[r] = requests[r]
           /\ timers' = timers]_vars

\* An interval fired while the request of an earlier fetch was in flight.
C9_Witness ==
  /\ op.name = "timer"
  /\ phase = "mounted"
  /\ Len(_xhrRequests) = 2
  /\ props.pollInterval > 0
  /\ props.dataUrl # NoUrl

\* C10: at most one interval is live in every reachable state, and after
\* resumePolling exactly one is, the one the mixin holds the handle of.
C10_OneTimer ==
  /\ Cardinality(timers) <= 1
  /\ op.name = "resumePolling"
       => (Cardinality(timers) = 1 /\ \A t \in timers : t.id = _pollInterval)

\* resumePolling ran while an interval was live, as on its second call in a row.
C10_Witness ==
  /\ op.name = "resumePolling"
  /\ calls[1] = [fn |-> "clearInterval", arg |-> 1]
  /\ timers # {}

\* C11: teardown leaves no request tracked, has called abort on every request
\* that was tracked, and leaves no interval live; from then on no interval
\* fires, no GET is issued and nothing is tracked again.
C11_TeardownReleases ==
  [][/\ op'.name = "componentWillUnmount"
        => /\ _xhrRequests' = <<>>
           /\ \A r \in Tracked :
                \E i \in At(calls', "abort") : calls'[i].arg.request = r
           /\ timers' = {}
     /\ phase' = "unmounted"
        => /\ timers' = {}
           /\ _xhrRequests' = <<>>
           /\ op'.name # "timer"
           /\ At(calls', "ajax") = {}]_vars

\* Teardown ran while two requests were tracked and an interval was live.
C11_Witness ==
  /\ op.name = "componentWillUnmount"
  /\ Len(CallsOf(calls, "abort")) = 2
  /\ \E i \in At(calls, "clearInterval") : calls[i].arg # 0

\* C12 as stated: refreshData in any state of a mounted component issues
\* exactly one GET and emits an update with dataError = null.
C12_RefreshAlways ==
  [][op'.name = "refreshData"
     => /\ Len(CallsOf(calls', "ajax")) = 1
        /\ \E i \in At(calls', "setState") : calls'[i].arg.dataError = Null
        /\ state'.dataError = Null]_vars

\* C12, amended: refreshData on a mounted component whose effective URL is
\* present issues exactly one GET, to that URL, and emits an update with
\* dataError = null, which is the last word on dataError in that step,
\* whatever isFetchingData, data and dataError were before; with no
\* effective URL it issues no GET and emits no update of its own.
C12_RefreshRefetches ==
  [][/\ (op'.name = "refreshData" /\ EffectiveUrl(props) # NoUrl)
        => /\ Len(CallsOf(calls', "ajax")) = 1
           /\ CallsOf(calls', "ajax")[1].arg.url = EffectiveUrl(props)
           /\ \E i \in At(calls', "setState") :
                /\ calls'[i].arg.dataError = Null
                /\ \A j \in At(calls', "setState") : j <= i
           /\ state'.dataError = Null
           /\ state'.data = state.data
     /\ (op'.name = "refreshData" /\ EffectiveUrl(props) = NoUrl)
        => /\ At(calls', "ajax") = {}
           /\ \A i \in At(calls', "setState") :
                calls'[i].arg.isFetchingData = FALSE]_vars

\* A refresh after a response had arrived, cancelling a request in flight
\* whose abort error was reported inside the refresh.
C12_Witness ==
  /\ op.name = "refreshData"
  /\ state.data # NoData
  /\ At(calls, "options.onError") # {}
  /\ At(calls, "ajax") # {}

\* C13: every GET, whatever issues it (mount, update, refresh, tick), is
\* immediately preceded in the same step by an update with
\* isFetchingData = true and dataError = null, and the step ends with
\* exactly that in this.state: an error on record is cleared when the next
\* fetch starts.
C13_FetchStartClearsError ==
  [][\A j \in At(calls', "ajax") :
       /\ j > 1
       /\ calls'[j - 1] = [fn |-> "setState",
                           arg |-> [isFetchingData |-> TRUE, dataError |-> Null]]
       /\ state'.isFetchingData = TRUE
       /\ state'.dataError = Null]_vars

\* A tick started a fetch right after a failure: the failed request is gone,
\* the error is cleared and the only request tracked is the tick's.
C13_Witness ==
  /\ op.name = "timer"
  /\ state.dataError = Null
  /\ state.data = NoData
  /\ Len(_xhrRequests) = 1
  /\ DOMAIN requests = {1}
  /\ props.dataUrl = "b.json"

QuietUntilStarted ==
  timers = {} => /\ op'.name # "timer"
                 /\ timers' # {} => At(calls', "setInterval") # {}

\* C15: stopPolling leaves no interval live, and none fires until one is
\* started again; it makes no call but clearInterval, so it aborts nothing,
\* keeps the tracked requests and emits no update.  resumePolling with
\* pollInterval N > 0 then leaves one interval live, of N ms, for the
\* effective URL of the current props, and each of its firings issues
\* exactly one GET, to that URL.
C15_StopThenResume ==
  [][/\ op'.name = "stopPolling"
        => /\ timers' = {}
           /\ _pollInterval' = 0
           /\ \A i \in DOMAIN calls' : calls'[i].fn = "clearInterval"
           /\ UNCHANGED <<_xhrRequests, requests, state>>
     /\ QuietUntilStarted
     /\ (op'.name = "resumePolling" /\ props.pollInterval > 0)
        => timers' = {[id |-> _pollInterval', url |-> EffectiveUrl(props),
                       interval |-> props.pollInterval]}
     /\ (op.name = "resumePolling" /\ op'.name = "timer")
        => /\ Len(CallsOf(calls', "ajax")) = 1
           /\ CallsOf(calls', "ajax")[1].arg.url = EffectiveUrl(props)
           /\ timers' = timers]_vars

\* resumePolling found no interval to clear although pollInterval is
\* positive (polling had been stopped), with a request in flight.
C15_Witness ==
  /\ op.name = "resumePolling"
  /\ calls[1] = [fn |-> "clearInterval", arg |-> 0]
  /\ props.pollInterval > 0
  /\ _xhrRequests # <<>>

\* C16: an update that takes pollInterval from a positive value to 0 leaves
\* no interval live and starts none, and no interval fires until a later
\* operation starts one.
C16_ZeroIntervalStopsPolling ==
  [][/\ (/\ op'.name = "componentWillReceiveProps"
         /\ props.pollInterval > 0
         /\ op'.props.pollInterval = 0)
        => /\ timers' = {}
           /\ _pollInterval' = 0
           /\ At(calls', "setInterval") = {}
     /\ timers = {} => /\ op'.name # "timer"
                        /\ timers' # {} => op'.name # "componentWillReceiveProps"
                                            \/ op'.props.pollInterval > 0]_vars

\* An update that changed pollInterval only, to 0, cleared a live interval.
C16_Witness ==
  /\ op.name = "componentWillReceiveProps"
  /\ props.pollInterval = 0
  /\ props.dataUrl # NoUrl
  /\ At(calls, "ajax") = {}
  /\ \E i \in At(calls, "clearInterval") : calls[i].arg # 0
  /\ timers = {}

\* C17: an update whose configuration resolves to another effective URL
\* than the current one, that URL present, calls abort on every tracked
\* request and issues exactly one GET, to the new effective URL, also when
\* the plain dataUrl field is the same in both.
C17_EffectiveUrlChangeRefetches ==
  [][(/\ op'.name = "componentWillReceiveProps"
      /\ EffectiveUrl(op'.props) # EffectiveUrl(props)
      /\ EffectiveUrl(op'.props) # NoUrl)
     => /\ \A r \in Tracked :
             \E i \in At(calls', "abort") : calls'[i].arg.request = r
        /\ Len(CallsOf(calls', "ajax")) = 1
        /\ CallsOf(calls', "ajax")[1].arg.url = EffectiveUrl(op'.props)]_vars

\* C18: every GET of a timer firing goes to the effective URL of the props
\* that are current when the interval fires.
C18_TickFetchesCurrentUrl ==
  [][op'.name = "timer"
     => \A i \in At(calls', "ajax") : calls'[i].arg.url = EffectiveUrl(props)]_vars

\* C19 as stated: at most one request is tracked in every reachable state.
C19_AtMostOneTracked == Len(_xhrRequests) <= 1

\* C19, amended: at most one request is tracked but for the requests of
\* timer firings.  Mount, refreshData, stopFetching, teardown and an update
\* with a changed dataUrl leave at most one tracked; only a timer firing
\* makes the tracked list longer than one, by the one request it issues.
C19_OnlyTicksOverlap ==
  [][/\ op'.name \in {"componentWillMount", "refreshData", "stopFetching",
                       "componentWillUnmount"}
        => Len(_xhrRequests') <= 1
     /\ (op'.name = "componentWillReceiveProps"
          /\ op'.props.dataUrl # props.dataUrl)
        => Len(_xhrRequests') <= 1
     /\ Len(_xhrRequests') > Len(_xhrRequests)
        => \/ Len(_xhrRequests') = 1
           \/ /\ op'.name = "timer"
              /\ Len(_xhrRequests') = Len(_xhrRequests) + 1]_vars

\* refreshData found two requests tracked and left only its own.
C19_Witness ==
  /\ op.name = "refreshData"
  /\ Len(CallsOf(calls, "abort")) = 2
  /\ Len(_xhrRequests) = 1

\* C20: whenever the current props have pollInterval = 0 no interval is
\* live (so none fires).
C20_NoTimerWithoutInterval == props.pollInterval = 0 => timers = {}

\* C21: before teardown, a success or error callback the transport delivers
\* for a request the mixin has aborted (in an update, a refresh or
\* stopFetching) emits no state update: isFetchingData, data and dataError
\* stay as they are.
C21_CancelledCallbackIgnored ==
  [][(/\ op'.name \in {"success", "error"}
      /\ requests[op'.req].aborts > 0
      /\ ~_ignoreXhrRequestCallbacks)
     => /\ At(calls', "setState") = {}
        /\ state' = state]_vars

C23_IntervalChangeOnlyRetimes ==
  [][(/\ op'.name = "componentWillReceiveProps"
      /\ op'.props.dataUrl = props.dataUrl
      /\ op'.props.pollInterval # props.pollInterval)
     => /\ calls' = <<[fn |-> "clearInterval", arg |-> _pollInterval]>>
                    \o (IF op'.props.pollInterval > 0
                        THEN <<[fn |-> "setInterval",
                                arg |-> op'.props.pollInterval]>>
                        ELSE <<>>)
        /\ Cardinality(timers') = IF op'.props.pollInterval > 0 THEN 1 ELSE 0
        /\ \A t \in timers' : /\ t.interval = op'.props.pollInterval
                               /\ t.id = _pollInterval'
        /\ UNCHANGED <<state, _xhrRequests, requests>>]_vars

\* An update replaced a live interval of 1000 ms by one of 2000 ms while a
\* request was in flight.
C23_Witness ==
  /\ op.name = "componentWillReceiveProps"
  /\ calls = <<[fn |-> "clearInterval", arg |-> 1],
               [fn |-> "setInterval", arg |-> 2000]>>
  /\ _xhrRequests # <<>>

\* C24: responses take effect in the order they are delivered.  The success
\* callback of a request that a later-issued request has already been
\* answered for emits its update all the same: data becomes its payload and
\* isFetchingData false.
C24_DeliveryOrderWins ==
  [][(op'.name = "success" /\ op'.arg.stale)
     => /\ calls' = <<[fn |-> "setState",
                       arg |-> [isFetchingData |-> FALSE, data |-> op'.arg.data]]>>
        /\ state'.data = op'.arg.data
        /\ state'.isFetchingData = FALSE]_vars

\* While polling, the response of the older of two overlapping requests
\* arrived after the newer one's, and its payload is the data.
C24_Witness ==
  /\ op.name = "success"
  /\ op.arg.stale
  /\ op.props.pollInterval > 0
  /\ timers # {}
  /\ state.data = "d1"
  /\ state.dataError = Null
  /\ Pending = {}

\* C25: stopPolling with no interval live (never started, or stopped
\* already) calls clearInterval on the empty handle and changes nothing: no
\* interval live, the handle empty, the requests and this.state as before.
C25_StopPollingIdempotent ==
  [][(op'.name = "stopPolling" /\ (timers = {} \/ op.name = "stopPolling"))
     => /\ calls' = <<[fn |-> "clearInterval", arg |-> 0]>>
        /\ timers' = {}
        /\ _pollInterval' = 0
        /\ UNCHANGED <<state, _xhrRequests, requests, timers, _pollInterval,
                       _ignoreXhrRequestCallbacks, props, phase>>]_vars

\* stopPolling ran with polling stopped already, a request in flight.
C25_Witness ==
  /\ op.name = "stopPolling"
  /\ calls = <<[fn |-> "clearInterval", arg |-> 0]>>
  /\ props.pollInterval > 0
  /\ _xhrRequests # <<>>
  /\ state.isFetchingData

\* C26: no GET is issued with an absent URL, by any operation or firing.
C26_NeverFetchesAbsentUrl ==
  \A i \in At(calls, "ajax") : calls[i].arg.url # NoUrl

\* C27: the requests tracked are exactly the unanswered requests the mixin
\* has not aborted.  abort is called only on requests that are tracked, so
\* unanswered and not aborted before, and on each at most once.
C27_TrackedAreLive ==
  [][/\ Tracked' = {r \in DOMAIN requests' : requests'[r].aborts = 0}
     /\ Len(_xhrRequests') = Cardinality(Tracked')
     /\ \A r \in DOMAIN requests' : requests'[r].aborts <= 1
     /\ \A i \in At(calls', "abort") :
          /\ calls'[i].arg.request \in Tracked
          /\ calls'[i].arg.request \in DOMAIN requests
          /\ requests[calls'[i].arg.request].aborts = 0
          /\ \A j \in At(calls', "abort") :
               calls'[j].arg.request = calls'[i].arg.request => j = i]_vars

\* A refresh aborted the request tracked, whose answer is still to come,
\* and tracks only its own.
C27_Witness ==
  /\ op.name = "refreshData"
  /\ Len(CallsOf(calls, "abort")) = 1
  /\ Len(_xhrRequests) = 1
  /\ \E r \in Pending : requests[r].aborts = 1

\* C28: before teardown, isFetchingData = true implies that a request is
\* tracked as in flight.
C28_FetchingMeansTracked ==
  (phase = "mounted" /\ state.isFetchingData) => _xhrRequests # <<>>

\* C29: with polling off, no teardown and a transport that answers every
\* request, isFetchingData never stays true forever, whatever mounts,
\* updates and refreshes occur; and once false it becomes true only in a
\* step that issues a GET.
C29_EventuallyIdle ==
  /\ state.isFetchingData ~> ~state.isFetchingData
  /\ [][(~state.isFetchingData /\ state'.isFetchingData)
         => At(calls', "ajax") # {}]_vars

\* After a response and a refresh, the last answer outstanding (that of an
\* aborted request) has arrived: nothing is in flight, nothing is fetching.
C29_Witness ==
  /\ op.name = "error"
  /\ op.arg.error = AbortArgs
  /\ phase = "mounted"
  /\ props.pollInterval = 0
  /\ props.dataUrl # NoUrl
  /\ state.data # NoData
  /\ Pending = {}
  /\ ~state.isFetchingData

\* A request failed with an Error object, stringified into the message.
C6_ErrorObjectSeen ==
  /\ op.name = "error"
  /\ state.dataError # Null
  /\ state.dataError[1].message = "Error: Unexpected token"

====
